---------------------------- MODULE Spec2Model ----------------------------
(***************************************************************************)
(* Model of climateTrend_analyzer/climate.py: the loader (import_data),    *)
(* the trend analyzer (analyze_trends), the visualizer (visualize_data),   *)
(* the index calculator (calculate_climate_index) and the driver (main).   *)
(*                                                                         *)
(* Numbers.  Every quantity is an exact rational.  A quotient is kept as   *)
(* the pair <<num, den>> with den >= 0; the only quotient with den = 0     *)
(* that arises is 0/0, which is the float NaN (the mean of an empty bin,   *)
(* the slope of a one-point fit, the z-score of a constant series).        *)
(* Temperatures of the GDD index are kept doubled, so that the mean        *)
(* (temp_max + temp_min) / 2 of two integers stays an integer.             *)
(*                                                                         *)
(* A table (pandas DataFrame) is [index, names, cols]: the row labels, the *)
(* column names in order, and one sequence of values per column.  A date   *)
(* is <<year, month, day>>.                                                *)
(***************************************************************************)
EXTENDS Integers, Sequences, FiniteSets, TLC

VARIABLES
    file,       \* the file on disk that import_data / main reads
    data,       \* the caller's table (main: climate_data)
    ret,        \* the last call: operation, arguments, outcome, value, printed lines
    figures,    \* number of figures open in pyplot's process-wide registry
    stdout,     \* main: the lines printed so far
    disk,       \* main: the image files written so far, in order
    pc          \* main: the statement about to run

vars == <<file, data, ret, figures, stdout, disk, pc>>

---------------------------------------------------------------------------
(* Bounds of the model *)

MaxRows == 2        \* rows of a four-column table handed to the index calculator
MaxRainRows == 4    \* rows of a precipitation-only table
MaxRain == 2        \* values of a precipitation-only table are 0..MaxRain
MaxShortRows == 4   \* rows of a short table handed to the trend analyzer
MaxMonths == 3      \* months spanned by a short table
MaxTemp == 1        \* values of a short table are 0..MaxTemp
LongSlack == 1      \* long tables have MinObs - 2 .. MinObs + LongSlack rows
MaxFigures == 2     \* visualize_data calls per session
MaxFileRows == 2    \* rows of a file handed to import_data

(* Program constants *)

MinObs == 24        \* climate.py:65  len(resampled_data) >= 24
Period == 12        \* climate.py:66  period=12
DefaultBase == 10   \* climate.py:140 params.get('base_temp', 10)
BaseYear == 2020     \* test_climate.py:8  start='2020-01-01'
MonthsPerYear == 12 \* climate.py:49   the calendar months of resample('M')

---------------------------------------------------------------------------
(* Sequence helpers *)

RECURSIVE SumSeq(_)
SumSeq(s) == IF s = <<>> THEN 0 ELSE Head(s) + SumSeq(Tail(s))

RECURSIVE ProdSeq(_)
ProdSeq(s) == IF s = <<>> THEN 1 ELSE Head(s) * ProdSeq(Tail(s))

Range(s) == {s[i] : i \in DOMAIN s}

SeqsUpTo(S, n) == UNION {[1..k -> S] : k \in 0..n}

Max2(a, b) == IF a >= b THEN a ELSE b

NaN == <<0, 0>>
IsNaN(q) == q[2] = 0

---------------------------------------------------------------------------
(* Tables *)

Columns == {"temperature", "precipitation", "temp_max", "temp_min"}

ColumnOrder == <<"temperature", "precipitation", "temp_max", "temp_min">>

NamesOf(cs) == SelectSeq(ColumnOrder, LAMBDA c : c \in cs)

DailyIndex(n) == [i \in 1..n |-> <<BaseYear, 1, i>>]

NoTable == [index |-> <<>>, names |-> <<>>, cols |-> <<>>]

NoFile == [exists |-> FALSE, rows |-> <<>>]

HasColumn(t, c) == c \in Range(t.names)

NRows(t) == Len(t.index)

(* Values each column of an index-calculator table is drawn from.  In a     *)
(* four-column table they straddle the default base temperature, and the    *)
(* mean of a temp_max and a temp_min may be a half; a precipitation-only    *)
(* table (rich) draws from 0..MaxRain.                                      *)
ColumnValues(c, rich) ==
    CASE rich -> 0..MaxRain
      [] c = "temperature" -> {DefaultBase - 2, DefaultBase + 3}
      [] c = "temp_max" -> {DefaultBase + 1, DefaultBase + 4}
      [] c = "temp_min" -> {DefaultBase - 5, DefaultBase - 1}
      [] OTHER -> {0, 3}

(* Every assignment of an n-row series to each column of cs. *)
RECURSIVE ColsOver(_, _, _)
ColsOver(cs, n, rich) ==
    IF cs = {} THEN {<<>>}
    ELSE LET c == CHOOSE x \in cs : TRUE
         IN  { (c :> s) @@ g : s \in [1..n -> ColumnValues(c, rich)],
                               g \in ColsOver(cs \ {c}, n, rich) }

TablesOver(cs, n, rich) ==
    { [index |-> DailyIndex(n), names |-> NamesOf(cs), cols |-> f] :
        f \in ColsOver(cs, n, rich) }

(* The tables handed to calculate_climate_index: every subset of the four   *)
(* columns with up to MaxRows rows, and precipitation-only tables with up   *)
(* to MaxRainRows rows.                                                     *)
IndexTables ==
    UNION { TablesOver(cs, n, FALSE) : cs \in SUBSET Columns, n \in 0..MaxRows }
    \cup UNION { TablesOver({"precipitation"}, n, TRUE) : n \in 0..MaxRainRows }

---------------------------------------------------------------------------
(* Calls and their outcomes *)

(* A call's outcome: it returns a value or raises; printed holds the lines *)
(* it wrote to standard output.                                           *)
Ok(v) == [status |-> "ok", msg |-> "", value |-> v, printed |-> <<>>]

OkPrinting(v, lines) == [status |-> "ok", msg |-> "", value |-> v, printed |-> lines]

Raise(kind, m) == [status |-> kind, msg |-> m, printed |-> <<>>]

Call(op, args, outcome) == [op |-> op, args |-> args] @@ outcome

NoCall == Call("none", <<>>, Raise("none", ""))

Returned(r) == r.status = "ok"

---------------------------------------------------------------------------
(* calculate_climate_index *)

IndexTypes == {"SPI", "GDD", "PDSI"}

(* **params: no keyword, or base_temp below, at and above the temperatures *)
ParamSets ==
    {<<>>} \cup {[base_temp |-> b] : b \in {DefaultBase - 3, DefaultBase + 4}}

(* precipitation.mean(): sum / n *)
SeriesMean(xs) == <<SumSeq(xs), Len(xs)>>

(* precipitation - precipitation.mean(), each difference times n:           *)
(* x - S/n = (n x - S) / n                                                  *)
Deviations(xs) ==
    LET m == SeriesMean(xs) IN [i \in DOMAIN xs |-> m[2] * xs[i] - m[1]]

(* The variance with ddof = 0, sum((x - mean)^2) / n *)
PopulationVariance(xs) ==
    LET d == Deviations(xs)
        n == Len(xs)
    IN  <<SumSeq([i \in DOMAIN d |-> d[i] * d[i]]), n * n * n>>

(* Series.std(): the square root of the sample variance (ddof = 1),         *)
(* sum((x - mean)^2) / (n - 1), returned as the variance <<num, den>>       *)
SeriesVariance(xs) ==
    LET d == Deviations(xs)
        n == Len(xs)
    IN  <<SumSeq([i \in DOMAIN d |-> d[i] * d[i]]), n * n * Max2(n - 1, 0)>>

(* (precipitation - mean) / std.  Element i is                              *)
(*     (dev[i] / n) / sqrt(var.num / var.den)                               *)
(*   = dev[i] * sqrt(var.den / (n^2 var.num)),                              *)
(* kept as values[i] = dev[i] and scale = <<var.den, n^2 var.num>>: the     *)
(* element is values[i] * sqrt(scale[1] / scale[2]), and NaN when           *)
(* scale[2] = 0 (no row, one row, or all rows equal).                       *)
SPISeries(t) ==
    LET precipitation == t.cols["precipitation"]
        n == Len(precipitation)
        var == SeriesVariance(precipitation)
    IN  [name |-> "SPI", index |-> t.index,
         values |-> Deviations(precipitation),
         scale |-> <<var[2], n * n * var[1]>>]

(* The difference left as it is *)
Identity(x) == x

(* np.maximum(x, 0) *)
Floor0(x) == Max2(x, 0)

(* Series.cumsum() *)
CumSum(s) == [i \in DOMAIN s |-> SumSeq(SubSeq(s, 1, i))]

BaseTemp(params) ==
    IF "base_temp" \in DOMAIN params THEN params.base_temp ELSE DefaultBase

(* The branches in the other order: the pair tested before 'temperature' *)
GDDSourcePairFirst(t) ==
    IF HasColumn(t, "temp_max") /\ HasColumn(t, "temp_min") THEN "pair"
    ELSE IF HasColumn(t, "temperature") THEN "temperature"
    ELSE "none"

(* Which columns the GDD branch reads: the if / elif / else of lines 141-149 *)
GDDSource(t) ==
    IF HasColumn(t, "temperature") THEN "temperature"
    ELSE IF HasColumn(t, "temp_max") /\ HasColumn(t, "temp_min") THEN "pair"
    ELSE "none"

(* The GDD series, every value doubled:                                     *)
(*   np.maximum(temp - base_temp, 0).cumsum()                               *)
(*   np.maximum(((temp_max + temp_min) / 2) - base_temp, 0).cumsum()        *)
GDDValues(t, base_temp) ==
    IF GDDSource(t) = "temperature"
    THEN CumSum([i \in 1..NRows(t) |-> Floor0(2 * t.cols["temperature"][i] - 2 * base_temp)])
    ELSE CumSum([i \in 1..NRows(t) |->
                   Floor0((t.cols["temp_max"][i] + t.cols["temp_min"][i]) - 2 * base_temp)])

(* The function without its final else: every tag but 'SPI' taken as 'GDD' *)
CalculateClimateIndexNoElse(t, index_type, params) ==
    IF index_type = "SPI" /\ HasColumn(t, "precipitation")
    THEN Ok(SPISeries(t))
    ELSE IF index_type = "SPI"
    THEN Raise("ValueError", "Precipitation data not found in the DataFrame")
    ELSE IF GDDSource(t) = "none"
    THEN Raise("ValueError", "Required temperature data not found in the DataFrame")
    ELSE Ok([name |-> "GDD", index |-> t.index,
             values |-> GDDValues(t, BaseTemp(params))])

CalculateClimateIndex(t, index_type, params) ==
    IF index_type = "SPI"
    THEN IF ~HasColumn(t, "precipitation")
         THEN Raise("ValueError", "Precipitation data not found in the DataFrame")
         ELSE Ok(SPISeries(t))
    ELSE IF index_type = "GDD"
    THEN IF GDDSource(t) = "none"
         THEN Raise("ValueError", "Required temperature data not found in the DataFrame")
         ELSE Ok([name |-> "GDD", index |-> t.index,
                  values |-> GDDValues(t, BaseTemp(params))])
    ELSE Raise("ValueError", "Unsupported climate index")

calculate_climate_index ==
    \E index_type \in IndexTypes, params \in ParamSets :
        /\ ret' = Call("calculate_climate_index",
                       [index_type |-> index_type, params |-> params],
                       CalculateClimateIndex(data, index_type, params))
        /\ UNCHANGED <<file, data, figures, stdout, disk, pc>>

InitIndex ==
    /\ data \in IndexTables
    /\ file = NoFile
    /\ ret = NoCall
    /\ figures = 0
    /\ stdout = <<>>
    /\ disk = <<>>
    /\ pc = "caller"

NextIndex == calculate_climate_index

SpecIndex == InitIndex /\ [][NextIndex]_vars

---------------------------------------------------------------------------
(* analyze_trends *)

TimePeriods == {"monthly", "yearly", "weekly"}

Variables == {"temperature", "humidity"}

(* The bin of a date: its calendar month ('M') or its calendar year ('Y') *)
BinKey(d, time_period) ==
    IF time_period = "monthly" THEN MonthsPerYear * d[1] + (d[2] - 1) ELSE d[1]

(* data[variable].resample(rule).mean(): one point per calendar month or    *)
(* year from the first row's to the last row's, each the mean <<sum, count>> *)
(* of the rows in it; an empty bin is 0/0 = NaN.                            *)
Resample(t, variable, time_period) ==
    LET n == NRows(t)
        key == [i \in 1..n |-> BinKey(t.index[i], time_period)]
    IN  IF n = 0 THEN <<>>
        ELSE LET lo == CHOOSE k \in Range(key) : \A j \in Range(key) : k <= j
                 hi == CHOOSE k \in Range(key) : \A j \in Range(key) : k >= j
             IN  [b \in 1..(hi - lo + 1) |->
                    LET rows == {i \in 1..n : key[i] = lo + b - 1}
                    IN  <<SumSeq([i \in 1..n |->
                                    IF i \in rows THEN t.cols[variable][i] ELSE 0]),
                          Cardinality(rows)>>]

HasNaN(y) == \E i \in DOMAIN y : IsNaN(y[i])

(* The points over their common denominator: y[i] = Scaled(y)[i] / Denom(y) *)
Denom(y) == ProdSeq([i \in DOMAIN y |-> y[i][2]])

Scaled(y) == [i \in DOMAIN y |-> y[i][1] * (Denom(y) \div y[i][2])]

(* stats.linregress(x, y) with x = np.arange(len(y)), on points without NaN: *)
(* n^2 ssxm = n sum(x^2) - sum(x)^2, n^2 D ssxym = n sum(xY) - sum(x) sum(Y), *)
(* n^2 D^2 ssym = n sum(Y^2) - sum(Y)^2, where Y = D y.                      *)
Sxx(y) ==
    LET n == Len(y)
        x == [i \in 1..n |-> i - 1]
    IN  n * SumSeq([i \in 1..n |-> x[i] * x[i]]) - SumSeq(x) * SumSeq(x)

Sxy(y) ==
    LET n == Len(y)
        x == [i \in 1..n |-> i - 1]
        Y == Scaled(y)
    IN  n * SumSeq([i \in 1..n |-> x[i] * Y[i]]) - SumSeq(x) * SumSeq(Y)

Syy(y) ==
    LET n == Len(y)
        Y == Scaled(y)
    IN  n * SumSeq([i \in 1..n |-> Y[i] * Y[i]]) - SumSeq(Y) * SumSeq(Y)

(* The slope of x on y, ssxym / ssym: linregress(y, x) *)
SlopeSwapped(y) == <<Sxy(y) * Denom(y), Syy(y)>>

(* slope = ssxym / ssxm; 0/0 = NaN on a single point *)
Slope(y) == <<Sxy(y), Denom(y) * Sxx(y)>>

(* intercept = ymean - slope * xmean *)
Intercept(y) ==
    LET n == Len(y)
        x == [i \in 1..n |-> i - 1]
        Y == Scaled(y)
    IN  <<SumSeq(Y) * SumSeq([i \in 1..n |-> x[i] * x[i]])
            - SumSeq(x) * SumSeq([i \in 1..n |-> x[i] * Y[i]]),
          Denom(y) * Sxx(y)>>

(* r = 0.0 if ssxm == 0.0 or ssym == 0.0, else ssxym / sqrt(ssxm * ssym);    *)
(* <<a, b>> stands for a / sqrt(b).                                          *)
RValue(y) ==
    IF Sxx(y) = 0 \/ Syy(y) = 0 THEN <<0, 1>> ELSE <<Sxy(y), Sxx(y) * Syy(y)>>

(* The two-sided p-value of the slope is a value of the t distribution's    *)
(* tail; it is kept as the statistic's inputs, not evaluated.               *)
PValue(y, r) == [df |-> Len(y) - 2, r |-> r]

Linregress(y) ==
    IF Len(y) = 0 THEN Raise("ValueError", "Inputs must not be empty.")
    ELSE IF HasNaN(y)
    THEN Ok([slope |-> NaN, intercept |-> NaN, r_value |-> NaN,
             p_value |-> PValue(y, NaN)])
    ELSE Ok([slope |-> Slope(y),
             intercept |-> IF IsNaN(Slope(y)) THEN NaN ELSE Intercept(y),
             r_value |-> RValue(y),
             p_value |-> PValue(y, RValue(y))])

(* len(resampled_data) > 24 *)
EnoughDataStrict(n) == n > MinObs

(* len(resampled_data) >= 24 *)
EnoughData(n) == n >= MinObs

(* seasonal_decompose(resampled_data, model='additive', period=12): raises  *)
(* on a series with missing values; its seasonal and resid components have  *)
(* the length and the index of the series (their values are not modelled).  *)
SeasonalDecompose(y) ==
    IF HasNaN(y)
    THEN Raise("ValueError", "This function does not handle missing values")
    ELSE Ok([seasonal |-> [len |-> Len(y), period |-> Period],
             resid |-> [len |-> Len(y), period |-> Period]])

Notice(n) ==
    [text |-> "Warning: Not enough data for seasonal decomposition. Need at least 24 observations, but only have",
     count |-> n]

(* Lines 55-72: the fit, then the decomposition or the notice *)
FitAndDecompose(resampled_data) ==
    LET fit == Linregress(resampled_data)
    IN  IF ~Returned(fit) THEN fit
        ELSE IF EnoughData(Len(resampled_data))
        THEN LET decomposition == SeasonalDecompose(resampled_data)
             IN  IF ~Returned(decomposition) THEN decomposition
                 ELSE Ok([trend |-> fit.value,
                          seasonal |-> decomposition.value.seasonal,
                          residual |-> decomposition.value.resid])
        ELSE OkPrinting([trend |-> fit.value], <<Notice(Len(resampled_data))>>)

(* data[variable] read before the period tag is tested *)
AnalyzeTrendsColumnFirst(t, variable, time_period) ==
    IF ~HasColumn(t, variable) THEN Raise("KeyError", variable)
    ELSE IF time_period \notin {"monthly", "yearly"}
    THEN Raise("ValueError", "Unsupported time period")
    ELSE FitAndDecompose(Resample(t, variable, time_period))

(* Lines 48-53: the period tag is tested before data[variable] is read *)
AnalyzeTrends(t, variable, time_period) ==
    IF time_period \notin {"monthly", "yearly"}
    THEN Raise("ValueError", "Unsupported time period")
    ELSE IF ~HasColumn(t, variable) THEN Raise("KeyError", variable)
    ELSE FitAndDecompose(Resample(t, variable, time_period))

analyze_trends ==
    \E variable \in Variables, time_period \in TimePeriods :
        /\ ret' = Call("analyze_trends",
                       [variable |-> variable, time_period |-> time_period],
                       AnalyzeTrends(data, variable, time_period))
        /\ UNCHANGED <<file, data, figures, stdout, disk, pc>>

(* The date of day `day` of the month q months after January of BaseYear *)
DateOf(q, day) == <<BaseYear + (q \div MonthsPerYear), (q % MonthsPerYear) + 1, day>>

(* A short table: up to MaxShortRows rows <<month, value>> in date order,   *)
(* over MaxMonths months that start in November, so that they cross a year. *)
ShortRows ==
    { s \in SeqsUpTo((0..(MaxMonths - 1)) \X (0..MaxTemp), MaxShortRows) :
        \A i \in 1..(Len(s) - 1) : s[i][1] <= s[i + 1][1] }

ShortTable(s) ==
    [index |-> [i \in DOMAIN s |->
                  DateOf(MonthsPerYear - 2 + s[i][1],
                         1 + Cardinality({j \in 1..(i - 1) : s[j][1] = s[i][1]}))],
     names |-> <<"temperature">>,
     cols |-> [c \in {"temperature"} |-> [i \in DOMAIN s |-> s[i][2]]]]

(* A long table: one row every `step` months from January of BaseYear *)
LongShapes == {"constant", "increasing", "zigzag"}

LongValue(shape, i) ==
    CASE shape = "constant" -> 5
      [] shape = "increasing" -> i
      [] OTHER -> i % 2

LongTable(count, step, shape) ==
    [index |-> [i \in 1..count |-> DateOf((i - 1) * step, 1)],
     names |-> <<"temperature">>,
     cols |-> [c \in {"temperature"} |-> [i \in 1..count |-> LongValue(shape, i)]]]

TrendTables ==
    {ShortTable(s) : s \in ShortRows}
    \cup {LongTable(count, step, shape) :
            count \in (MinObs - 2)..(MinObs + LongSlack),
            step \in {1, MonthsPerYear}, shape \in LongShapes}

InitTrend ==
    /\ data \in TrendTables
    /\ file = NoFile
    /\ ret = NoCall
    /\ figures = 0
    /\ stdout = <<>>
    /\ disk = <<>>
    /\ pc = "caller"

NextTrend == analyze_trends

SpecTrend == InitTrend /\ [][NextTrend]_vars

---------------------------------------------------------------------------
(* import_data *)

FileTypes == {"csv", "json", "excel", "xml"}

(* An empty field reads as a missing value: NaT in a column of dates, the  *)
(* float NaN, here NA, in a column of numbers.  A date is <<year, month,   *)
(* day>>; the numbers of a file are positive.                              *)
NaT == <<>>

NA == -1

IsMissing(c, x) == IF c = "date" THEN x = NaT ELSE x = NA

(* The columns of a file: the date first, then one or two variables *)
Headers ==
    { <<"date", "temperature">>, <<"date", "precipitation">>,
      <<"date", "temperature", "precipitation">> }

(* The rows a file with this header may hold at position i: the row is     *)
(* dated day i of January or has no date, and each other field is a number *)
(* or is empty.                                                            *)
FileRows(header, i) ==
    { ("date" :> d) @@ g : d \in {NaT, <<BaseYear, 1, i>>},
                           g \in [Range(header) \ {"date"} -> {NA, 1, 2}] }

RECURSIVE RowsOver(_, _)
RowsOver(header, n) ==
    IF n = 0 THEN {<<>>}
    ELSE { Append(rs, r) : rs \in RowsOver(header, n - 1), r \in FileRows(header, n) }

FilesOver(header, n) ==
    { [exists |-> TRUE, header |-> header, rows |-> rows] : rows \in RowsOver(header, n) }

Files ==
    {NoFile} \cup UNION { FilesOver(header, n) : header \in Headers, n \in 0..MaxFileRows }

(* What the reader returns.  read_csv(parse_dates=True, index_col=0): the   *)
(* first column, parsed as dates, is the index (an empty field is NaT) and   *)
(* the other columns are the data.  read_json / read_excel: every column is *)
(* data and the index is the positions 0..n-1.                              *)
ReadFile(f, file_type) ==
    IF file_type = "csv"
    THEN [kind |-> "DatetimeIndex",
          index |-> [i \in DOMAIN f.rows |-> f.rows[i][f.header[1]]],
          names |-> Tail(f.header),
          cols |-> [c \in Range(Tail(f.header)) |-> [i \in DOMAIN f.rows |-> f.rows[i][c]]]]
    ELSE [kind |-> "RangeIndex",
          index |-> [i \in DOMAIN f.rows |-> i - 1],
          names |-> f.header,
          cols |-> [c \in Range(f.header) |-> [i \in DOMAIN f.rows |-> f.rows[i][c]]]]

(* pd.to_datetime(df.index) of integer positions: that many nanoseconds     *)
(* after the epoch, <<1970, 1, 1, ns>>                                      *)
ToDatetimeIndex(df) ==
    IF df.kind = "DatetimeIndex" THEN df
    ELSE [df EXCEPT !.kind = "DatetimeIndex",
                    !.index = [i \in DOMAIN df.index |-> <<1970, 1, 1, df.index[i]>>]]

(* df.dropna(inplace=True): drops every row that has a missing value in a   *)
(* column; the index is not looked at.                                      *)
Dropna(df) ==
    LET keep == {i \in DOMAIN df.index :
                    \A c \in Range(df.names) : ~IsMissing(c, df.cols[c][i])}
        pos == SelectSeq([i \in DOMAIN df.index |-> i], LAMBDA i : i \in keep)
    IN  [index |-> [k \in DOMAIN pos |-> df.index[pos[k]]],
         names |-> df.names,
         cols |-> [c \in Range(df.names) |-> [k \in DOMAIN pos |-> df.cols[c][pos[k]]]]]

ImportData(f, file_type) ==
    IF file_type \notin {"csv", "json", "excel"}
    THEN Raise("ValueError", "Unsupported file type")
    ELSE IF ~f.exists THEN Raise("FileNotFoundError", "")
    ELSE Ok(Dropna(ToDatetimeIndex(ReadFile(f, file_type))))

import_data ==
    \E file_type \in FileTypes :
        /\ ret' = Call("import_data", [file_type |-> file_type], ImportData(file, file_type))
        /\ UNCHANGED <<file, data, figures, stdout, disk, pc>>

InitLoad ==
    /\ file \in Files
    /\ data = NoTable
    /\ ret = NoCall
    /\ figures = 0
    /\ stdout = <<>>
    /\ disk = <<>>
    /\ pc = "caller"

NextLoad == import_data

SpecLoad == InitLoad /\ [][NextLoad]_vars

---------------------------------------------------------------------------
(* visualize_data *)

PlotTypes == {"line", "heatmap", "boxplot", "pie"}

KwargSets == {<<>>} \cup {[variable |-> v] : v \in {"temperature", "humidity"}}

IsSeries(d) == "name" \in DOMAIN d

(* Series.to_frame(): one column, named after the series *)
ToFrame(d) ==
    IF IsSeries(d)
    THEN [index |-> d.index, names |-> <<d.name>>, cols |-> [c \in {d.name} |-> d.values]]
    ELSE d

(* variable = kwargs.get('variable', data.columns[0]); data[variable].      *)
(* The default data.columns[0] is evaluated whether or not the keyword is   *)
(* given, and raises IndexError on a table without columns.                 *)
PlotColumn(frame, kwargs, what) ==
    IF frame.names = <<>> THEN Raise("IndexError", "index 0 is out of bounds")
    ELSE LET variable == IF "variable" \in DOMAIN kwargs THEN kwargs.variable
                         ELSE frame.names[1]
         IN  IF ~HasColumn(frame, variable) THEN Raise("KeyError", variable)
             ELSE Ok([kind |-> what, variable |-> variable, points |-> NRows(frame)])

(* Lines 88-117, after the figure has been created.  pivot_ok: whether      *)
(* DataFrame.pivot accepts the month numbers given as its columns.          *)
VisualizeData(d, plot_type, kwargs, pivot_ok) ==
    LET frame == ToFrame(d)
    IN  IF plot_type = "line" THEN PlotColumn(frame, kwargs, "line")
        ELSE IF plot_type = "heatmap"
        THEN LET col == PlotColumn(frame, kwargs, "heatmap")
             IN  IF Returned(col) /\ ~pivot_ok THEN Raise("KeyError", "pivot") ELSE col
        ELSE IF plot_type = "boxplot" THEN PlotColumn(frame, kwargs, "boxplot")
        ELSE Raise("ValueError", "Unsupported plot type")

(* fig, ax = plt.subplots(figsize=(12, 6)) is the first statement: the      *)
(* figure is registered with pyplot before the plot type is looked at, and  *)
(* nothing closes it when the call raises.                                  *)
FiguresAfterCall(n) == n + 1

visualize_data ==
    /\ figures < MaxFigures
    /\ \E plot_type \in PlotTypes, kwargs \in KwargSets, pivot_ok \in BOOLEAN :
          ret' = Call("visualize_data", [plot_type |-> plot_type, kwargs |-> kwargs],
                      VisualizeData(data, plot_type, kwargs, pivot_ok))
    /\ figures' = FiguresAfterCall(figures)
    /\ UNCHANGED <<file, data, stdout, disk, pc>>

---------------------------------------------------------------------------
(* A session: a caller holding a table and a file calls the four operations *)
(* in any order.                                                            *)

SessionTables ==
    UNION { TablesOver(cs, n, FALSE) :
              cs \in SUBSET {"temperature", "precipitation"}, n \in 0..1 }

SessionFiles ==
    {NoFile} \cup UNION { FilesOver(<<"date", "temperature">>, n) : n \in 0..1 }

Init ==
    /\ data \in SessionTables
    /\ file \in SessionFiles
    /\ ret = NoCall
    /\ figures = 0
    /\ stdout = <<>>
    /\ disk = <<>>
    /\ pc = "caller"

Next ==
    \/ import_data
    \/ analyze_trends
    \/ visualize_data
    \/ calculate_climate_index

Spec == Init /\ [][Next]_vars

---------------------------------------------------------------------------
(* main *)

(* The completion message ahead of the second savefig *)
StatementsDoneEarly ==
    << "import", "analyze", "print_trend", "plot_temp", "save_temp",
       "spi", "plot_spi", "print_done", "save_spi" >>

(* The statements of main, in program order; pc is the one about to run,    *)
(* "done" after the last, "failed" once an exception has left main.         *)
Statements ==
    << "import", "analyze", "print_trend", "plot_temp", "save_temp",
       "spi", "plot_spi", "save_spi", "print_done" >>

Following(stmt) ==
    LET i == CHOOSE k \in DOMAIN Statements : Statements[k] = stmt
    IN  IF i = Len(Statements) THEN "done" ELSE Statements[i + 1]

(* No statement of main is inside a try: an exception ends the run *)
After(outcome, stmt) == IF Returned(outcome) THEN Following(stmt) ELSE "failed"

DoneLine == [text |-> "Analysis complete. Check the generated plots for visual results."]

TrendLine(trend) == [text |-> "Temperature trend analysis:", trend |-> trend]

(* climate_data = import_data(file_path, 'csv') *)
main_import ==
    /\ pc = "import"
    /\ LET outcome == ImportData(file, "csv")
       IN  /\ ret' = Call("import_data", [file_type |-> "csv"], outcome)
           /\ data' = IF Returned(outcome) THEN outcome.value ELSE data
           /\ pc' = After(outcome, "import")
    /\ UNCHANGED <<file, figures, stdout, disk>>

(* temp_trends = analyze_trends(climate_data, 'temperature', 'monthly') *)
main_analyze ==
    /\ pc = "analyze"
    /\ LET outcome == AnalyzeTrends(data, "temperature", "monthly")
       IN  /\ ret' = Call("analyze_trends",
                          [variable |-> "temperature", time_period |-> "monthly"], outcome)
           /\ stdout' = stdout \o outcome.printed
           /\ pc' = After(outcome, "analyze")
    /\ UNCHANGED <<file, data, figures, disk>>

(* print("Temperature trend analysis:", temp_trends['trend']) *)
main_print_trend ==
    /\ pc = "print_trend"
    /\ stdout' = Append(stdout, TrendLine(ret.value.trend))
    /\ pc' = Following("print_trend")
    /\ UNCHANGED <<file, data, ret, figures, disk>>

(* temp_plot = visualize_data(climate_data, 'line', variable='temperature') *)
main_plot_temp ==
    /\ pc = "plot_temp"
    /\ LET kwargs == [variable |-> "temperature"]
           outcome == VisualizeData(data, "line", kwargs, TRUE)
       IN  /\ ret' = Call("visualize_data", [plot_type |-> "line", kwargs |-> kwargs], outcome)
           /\ pc' = After(outcome, "plot_temp")
    /\ figures' = FiguresAfterCall(figures)
    /\ UNCHANGED <<file, data, stdout, disk>>

(* temp_plot.savefig('temperature_trend.png'); the write may fail (OSError) *)
main_save_temp ==
    /\ pc = "save_temp"
    /\ \E written \in BOOLEAN :
          IF written
          THEN disk' = Append(disk, "temperature_trend.png") /\ pc' = Following("save_temp")
          ELSE disk' = disk /\ pc' = "failed"
    /\ UNCHANGED <<file, data, ret, figures, stdout>>

(* spi = calculate_climate_index(climate_data, 'SPI') *)
main_spi ==
    /\ pc = "spi"
    /\ LET outcome == CalculateClimateIndex(data, "SPI", <<>>)
       IN  /\ ret' = Call("calculate_climate_index",
                          [index_type |-> "SPI", params |-> <<>>], outcome)
           /\ pc' = After(outcome, "spi")
    /\ UNCHANGED <<file, data, figures, stdout, disk>>

(* spi_plot = visualize_data(spi, 'line', variable='SPI') *)
main_plot_spi ==
    /\ pc = "plot_spi"
    /\ LET kwargs == [variable |-> "SPI"]
           outcome == VisualizeData(ret.value, "line", kwargs, TRUE)
       IN  /\ ret' = Call("visualize_data", [plot_type |-> "line", kwargs |-> kwargs], outcome)
           /\ pc' = After(outcome, "plot_spi")
    /\ figures' = FiguresAfterCall(figures)
    /\ UNCHANGED <<file, data, stdout, disk>>

(* spi_plot.savefig('spi_index.png') *)
main_save_spi ==
    /\ pc = "save_spi"
    /\ \E written \in BOOLEAN :
          IF written
          THEN disk' = Append(disk, "spi_index.png") /\ pc' = Following("save_spi")
          ELSE disk' = disk /\ pc' = "failed"
    /\ UNCHANGED <<file, data, ret, figures, stdout>>

(* print("Analysis complete. Check the generated plots for visual results.") *)
main_print_done ==
    /\ pc = "print_done"
    /\ stdout' = Append(stdout, DoneLine)
    /\ pc' = Following("print_done")
    /\ UNCHANGED <<file, data, ret, figures, disk>>

(* The file main reads: any file whose rows are dated (a table with NaT in  *)
(* its index is not resampled here), or no file.                            *)
MainFiles == { f \in Files : \A i \in DOMAIN f.rows : f.rows[i]["date"] # NaT }

InitMain ==
    /\ file \in MainFiles
    /\ data = NoTable
    /\ ret = NoCall
    /\ figures = 0
    /\ stdout = <<>>
    /\ disk = <<>>
    /\ pc = "import"

NextMain ==
    \/ main_import
    \/ main_analyze
    \/ main_print_trend
    \/ main_plot_temp
    \/ main_save_temp
    \/ main_spi
    \/ main_plot_spi
    \/ main_save_spi
    \/ main_print_done

SpecMain == InitMain /\ [][NextMain]_vars

---------------------------------------------------------------------------
(* Properties of calculate_climate_index (SpecIndex) *)

IsIndexCall == ret.op = "calculate_climate_index"

RECURSIVE RunningTotal(_, _)
RunningTotal(f, i) == IF i = 0 THEN 0 ELSE RunningTotal(f, i - 1) + f[i]

PositivePart(x) == IF x > 0 THEN x ELSE 0

HasPair(t) == HasColumn(t, "temp_max") /\ HasColumn(t, "temp_min")

(* Twice the mean of temp_max and temp_min of row i *)
PairMean2(t, i) == t.cols["temp_max"][i] + t.cols["temp_min"][i]

(* Twice the effective temperature of row i *)
Effective2(t, i) ==
    IF HasColumn(t, "temperature") THEN 2 * t.cols["temperature"][i] ELSE PairMean2(t, i)

(* C1: calculate_climate_index raises ValueError and returns no series when  *)
(* the tag is neither 'SPI' nor 'GDD', when it is 'SPI' and there is no      *)
(* 'precipitation' column, and when it is 'GDD' and there is neither a       *)
(* 'temperature' column nor both of 'temp_max' and 'temp_min'; in every      *)
(* other case it returns a series named after the tag.                       *)
C1_MustFail ==
    \/ ret.args.index_type \notin {"SPI", "GDD"}
    \/ ret.args.index_type = "SPI" /\ ~HasColumn(data, "precipitation")
    \/ /\ ret.args.index_type = "GDD"
       /\ ~HasColumn(data, "temperature")
       /\ (~HasColumn(data, "temp_max") \/ ~HasColumn(data, "temp_min"))

C1_IndexErrors ==
    IsIndexCall =>
        IF C1_MustFail
        THEN ret.status = "ValueError" /\ "value" \notin DOMAIN ret
        ELSE /\ ret.status = "ok"
             /\ ret.value.name = ret.args.index_type
             /\ Len(ret.value.values) = NRows(data)

C1_Witness ==
    /\ IsIndexCall
    /\ ret.args.index_type = "GDD"
    /\ HasColumn(data, "temp_max") /\ ~HasColumn(data, "temp_min")
    /\ ~HasColumn(data, "temperature")
    /\ NRows(data) > 0
    /\ ret.status = "ValueError"

(* C3: the GDD series is the running total of max(effective temperature -   *)
(* base, 0) along the rows: no element is negative and none is smaller than *)
(* its predecessor, for every base temperature.                             *)
C3_GDDMonotone ==
    (IsIndexCall /\ ret.args.index_type = "GDD" /\ Returned(ret)) =>
        LET v == ret.value.values
            b == BaseTemp(ret.args.params)
            inc == [i \in 1..NRows(data) |-> PositivePart(Effective2(data, i) - 2 * b)]
        IN  /\ Len(v) = NRows(data)
            /\ \A i \in DOMAIN v :
                  /\ v[i] = (IF i = 1 THEN 0 ELSE v[i - 1]) + inc[i]
                  /\ v[i] >= 0
                  /\ i > 1 => v[i] >= v[i - 1]

C3_Witness ==
    /\ IsIndexCall /\ ret.args.index_type = "GDD" /\ Returned(ret)
    /\ ret.args.params = <<>>
    /\ NRows(data) = 2
    /\ Effective2(data, 1) > 2 * DefaultBase
    /\ Effective2(data, 2) < 2 * DefaultBase
    /\ ret.value.values[1] > 0
    /\ ret.value.values[2] = ret.value.values[1]

(* C4: on a precipitation series of at least two rows that are not all      *)
(* equal, the SPI series is named 'SPI', has the table's index and length,  *)
(* its elements are (value - mean) / std, its mean is 0 and its standard    *)
(* deviation is 1.                                                          *)
NonDegenerate(xs) == Len(xs) >= 2 /\ \E i, j \in DOMAIN xs : xs[i] # xs[j]

C4_SPIStandardised ==
    (/\ IsIndexCall /\ ret.args.index_type = "SPI" /\ Returned(ret)
     /\ NonDegenerate(data.cols["precipitation"])) =>
        LET xs == data.cols["precipitation"]
            n == Len(xs)
            S == RunningTotal(xs, n)
            z == ret.value.values
            k == ret.value.scale
            sumsq == RunningTotal([i \in 1..n |-> z[i] * z[i]], n)
            devsq == RunningTotal([i \in 1..n |-> (n * xs[i] - S) * (n * xs[i] - S)], n)
        IN  /\ ret.value.name = "SPI"
            /\ ret.value.index = data.index
            /\ Len(z) = n
            /\ k[1] > 0 /\ k[2] > 0
            \* element i is (x[i] - S/n) / sqrt(devsq / (n^2 (n - 1)))
            /\ \A i \in 1..n : z[i] = n * xs[i] - S
            /\ k[1] * devsq = k[2] * (n - 1)
            \* the mean of the output is 0
            /\ RunningTotal(z, n) = 0
            \* its sample variance, sum(z^2 k[1]/k[2]) / (n - 1), is 1
            /\ sumsq * k[1] = (n - 1) * k[2]

C4_Witness ==
    /\ IsIndexCall /\ ret.args.index_type = "SPI" /\ Returned(ret)
    /\ NRows(data) = 3
    /\ data.cols["precipitation"] = <<0, 1, 2>>
    /\ ret.value.values = <<-3, 0, 3>>

(* C6 as stated: whenever both temp_max and temp_min are present the        *)
(* effective temperature is their mean; 'temperature' is used only when     *)
(* the pair is not available.                                               *)
C6_PairAlwaysUsed ==
    (IsIndexCall /\ ret.args.index_type = "GDD" /\ Returned(ret)) =>
        LET b == BaseTemp(ret.args.params)
            eff == [i \in 1..NRows(data) |->
                      IF HasPair(data) THEN PairMean2(data, i)
                      ELSE 2 * data.cols["temperature"][i]]
        IN  \A i \in 1..NRows(data) :
                ret.value.values[i] =
                    RunningTotal([j \in 1..NRows(data) |-> PositivePart(eff[j] - 2 * b)], i)

(* C6 amended: a 'temperature' column, when present, is the effective       *)
(* temperature whether or not temp_max and temp_min are present; the mean   *)
(* of temp_max and temp_min is used only when there is no 'temperature'.    *)
C6_TemperatureFirst ==
    (IsIndexCall /\ ret.args.index_type = "GDD" /\ Returned(ret)) =>
        LET b == BaseTemp(ret.args.params)
            eff == [i \in 1..NRows(data) |->
                      IF HasColumn(data, "temperature") THEN 2 * data.cols["temperature"][i]
                      ELSE PairMean2(data, i)]
        IN  /\ HasColumn(data, "temperature") \/ HasPair(data)
            /\ \A i \in 1..NRows(data) :
                ret.value.values[i] =
                    RunningTotal([j \in 1..NRows(data) |-> PositivePart(eff[j] - 2 * b)], i)

C6_Witness ==
    /\ IsIndexCall /\ ret.args.index_type = "GDD" /\ Returned(ret)
    /\ HasColumn(data, "temperature") /\ HasPair(data)
    /\ NRows(data) >= 1
    /\ PairMean2(data, 1) # 2 * data.cols["temperature"][1]
    /\ ret.value.values[1] = PositivePart(2 * data.cols["temperature"][1] - 2 * DefaultBase)
    /\ ret.value.values[1] # PositivePart(PairMean2(data, 1) - 2 * DefaultBase)

---------------------------------------------------------------------------
(* Properties of analyze_trends (SpecTrend) *)

IsTrendCall == ret.op = "analyze_trends"

TrendApplies ==
    /\ IsTrendCall
    /\ ret.args.time_period \in {"monthly", "yearly"}
    /\ HasColumn(data, ret.args.variable)

(* The number of calendar months or years from the first to the last row *)
PointCount ==
    IF NRows(data) = 0 THEN 0
    ELSE LET first == data.index[1]
             last == data.index[NRows(data)]
         IN  IF ret.args.time_period = "monthly"
             THEN 12 * (last[1] - first[1]) + (last[2] - first[2]) + 1
             ELSE last[1] - first[1] + 1

DecompositionIff ==
    Returned(ret) =>
        /\ "seasonal" \in DOMAIN ret.value <=> PointCount >= 24
        /\ "residual" \in DOMAIN ret.value <=> PointCount >= 24
        /\ PointCount >= 24 => ret.printed = <<>>

TrendOnlyWithNotice ==
    /\ Returned(ret)
    /\ DOMAIN ret.value = {"trend"}
    /\ DOMAIN ret.value.trend = {"slope", "intercept", "r_value", "p_value"}
    /\ Len(ret.printed) = 1
    /\ ret.printed[1].count = PointCount

(* C2 as stated: the decomposition fields are there iff the resampled       *)
(* series has at least 24 points, and with fewer than 24 points the call    *)
(* returns the trend alone and prints one notice naming the point count.    *)
C2_NeverFailsBelow24 ==
    TrendApplies => DecompositionIff /\ (PointCount < 24 => TrendOnlyWithNotice)

(* C2 amended: the same for 1 to 23 points; with no point at all (an empty  *)
(* table) the fit raises ValueError and nothing is returned or printed.     *)
C2_DecompositionIff ==
    TrendApplies =>
        /\ DecompositionIff
        /\ (PointCount >= 1 /\ PointCount < 24) => TrendOnlyWithNotice
        /\ PointCount = 0 =>
              ret.status = "ValueError" /\ "value" \notin DOMAIN ret /\ ret.printed = <<>>

C2_Witness ==
    /\ TrendApplies
    /\ PointCount = 23
    /\ TrendOnlyWithNotice
    /\ ret.printed[1].count = 23

TrendPoints == Resample(data, ret.args.variable, ret.args.time_period)

Less(p, q) == p[1] * q[2] < q[1] * p[2]

StrictlyIncreasing(y) ==
    Len(y) >= 2 /\ \A i \in 1..(Len(y) - 1) : Less(y[i], y[i + 1])

Constant(y) ==
    Len(y) >= 1 /\ \A i, j \in DOMAIN y : ~Less(y[i], y[j])

Sign(a) == IF a > 0 THEN 1 ELSE IF a < 0 THEN -1 ELSE 0

(* The sign of sum over points of (t - mean t) (y - mean y), which is that  *)
(* of sum over i < j of (j - i) (y[j] - y[i])                               *)
Covariation(y) ==
    LET n == Len(y)
        D == ProdSeq([i \in 1..n |-> y[i][2]])
        term(i, j) == (j - i) * (y[j][1] * y[i][2] - y[i][1] * y[j][2])
                        * (D \div (y[i][2] * y[j][2]))
    IN  RunningTotal([i \in 1..n |->
            RunningTotal([j \in 1..n |-> IF j > i THEN term(i, j) ELSE 0], n)], n)

IsZero(q) == q[1] = 0 /\ q[2] > 0

SlopeFacts(y) ==
    LET slope == ret.value.trend.slope
        r == ret.value.trend.r_value
    IN  /\ slope[2] > 0
        /\ Sign(slope[1]) = Sign(Covariation(y))
        /\ StrictlyIncreasing(y) => slope[1] > 0
        /\ Constant(y) => IsZero(slope) /\ IsZero(r)

(* C8 as stated: on every fitted series the slope has the sign of the       *)
(* covariation, is positive on a strictly increasing series, and is 0 with  *)
(* correlation 0 on a constant series.                                      *)
C8_ConstantAlwaysZero ==
    (TrendApplies /\ Returned(ret) /\ ~HasNaN(TrendPoints)) => SlopeFacts(TrendPoints)

(* C8 amended: the same on series of at least two points; on a single point *)
(* the slope is NaN (0/0) and the correlation is 0.                         *)
C8_SlopeSign ==
    (TrendApplies /\ Returned(ret) /\ ~HasNaN(TrendPoints)) =>
        /\ Len(TrendPoints) >= 2 => SlopeFacts(TrendPoints)
        /\ Len(TrendPoints) = 1 =>
              IsNaN(ret.value.trend.slope) /\ IsZero(ret.value.trend.r_value)

C8_Witness ==
    /\ TrendApplies /\ Returned(ret)
    /\ Len(TrendPoints) = 3
    /\ TrendPoints[2] = <<1, 2>>
    /\ StrictlyIncreasing(TrendPoints)
    /\ ret.value.trend.slope[1] > 0
    /\ ret.value.trend.slope[2] > 0

---------------------------------------------------------------------------
(* Properties of import_data (SpecLoad) *)

IsLoadCall == ret.op = "import_data"

Loaded ==
    IsLoadCall /\ ret.args.file_type \in {"csv", "json", "excel"} /\ file.exists

FullRow(r) == \A h \in DOMAIN r : ~IsMissing(h, r[h])

(* The rows of the file that have no empty field, in the file's order *)
FullRows == SelectSeq(file.rows, FullRow)

(* Field h of row k of the loaded table: a column, or the index when the    *)
(* reader made column h the index                                           *)
LoadedField(t, h, k) == IF HasColumn(t, h) THEN t.cols[h][k] ELSE t.index[k]

(* C5: the table import_data returns from a well-formed file holds no       *)
(* missing value and has a date-typed index; it holds exactly the rows of   *)
(* the file that have no empty field, unchanged and in the file's order.    *)
C5_OnlyFullRows ==
    Loaded =>
        /\ Returned(ret)
        /\ \A c \in Range(ret.value.names), k \in 1..NRows(ret.value) :
              ~IsMissing(c, ret.value.cols[c][k])
        /\ \A k \in 1..NRows(ret.value) : Len(ret.value.index[k]) >= 3
        /\ NRows(ret.value) = Len(FullRows)
        /\ \A k \in 1..Len(FullRows), h \in Range(file.header) :
              LoadedField(ret.value, h, k) = FullRows[k][h]

C5_KeptRowWithoutDate ==
    /\ Loaded /\ Returned(ret)
    /\ ret.args.file_type = "csv"
    /\ Len(file.rows) = 2
    /\ file.rows[1]["date"] = NaT
    /\ NRows(ret.value) = 2
    /\ ret.value.index[1] = NaT

---------------------------------------------------------------------------
(* Properties of a session (Spec) *)

UnrecognizedTag ==
    \/ ret.op = "import_data" /\ ret.args.file_type \notin {"csv", "json", "excel"}
    \/ ret.op = "analyze_trends" /\ ret.args.time_period \notin {"monthly", "yearly"}
    \/ ret.op = "visualize_data" /\ ret.args.plot_type \notin {"line", "heatmap", "boxplot"}

(* C7: import_data, analyze_trends and visualize_data raise ValueError on   *)
(* an unrecognized tag whatever the other arguments are (a file that does   *)
(* not exist, a column the table does not have), and return nothing.        *)
C7_UnrecognizedTagRejected ==
    UnrecognizedTag =>
        /\ ret.status = "ValueError"
        /\ "value" \notin DOMAIN ret
        /\ ret.printed = <<>>

C7_Witness ==
    /\ ret.op = "analyze_trends"
    /\ ret.args.time_period = "weekly"
    /\ ret.args.variable = "humidity"
    /\ ~HasColumn(data, "humidity")
    /\ ret.status = "ValueError"

(* C10: no call changes the caller's table, and a visualize_data call that  *)
(* fails with the unsupported-plot-type error leaves the set of open        *)
(* figures as it was.                                                       *)
C10_NoStateAcrossCalls ==
    [][ /\ data' = data
        /\ (/\ ret'.op = "visualize_data"
            /\ ret'.status = "ValueError"
            /\ ret'.args.plot_type \notin {"line", "heatmap", "boxplot"})
           => figures' = figures ]_vars

---------------------------------------------------------------------------
(* Properties of main (SpecMain) *)

Count(seq, x) == Cardinality({i \in DOMAIN seq : seq[i] = x})

Printed(line) == \E i \in DOMAIN stdout : stdout[i].text = line

BothImages == <<"temperature_trend.png", "spi_index.png">>

ProgramOrder ==
    [import |-> "analyze", analyze |-> "print_trend", print_trend |-> "plot_temp",
     plot_temp |-> "save_temp", save_temp |-> "spi", spi |-> "plot_spi",
     plot_spi |-> "save_spi", save_spi |-> "print_done", print_done |-> "done"]

(* C9: main runs its statements in one fixed order and stops at the first   *)
(* failure: each image is written at most once, temperature_trend.png       *)
(* before spi_index.png, the completion message only after both; when SPI   *)
(* fails temperature_trend.png is there, spi_index.png is not and the       *)
(* completion message is not printed.                                       *)
C9_DriverOrder ==
    /\ [](/\ Count(disk, "temperature_trend.png") <= 1
          /\ Count(disk, "spi_index.png") <= 1
          /\ Count(disk, "spi_index.png") = 1 => disk = BothImages
          /\ Printed(DoneLine.text) => disk = BothImages
          /\ Count(stdout, DoneLine) <= 1
          /\ (pc = "failed" /\ ret.op = "calculate_climate_index") =>
                /\ disk = <<"temperature_trend.png">>
                /\ ~Printed(DoneLine.text)
          /\ pc = "done" => disk = BothImages /\ Printed(DoneLine.text))
    /\ [][ /\ pc \notin {"done", "failed"}
           /\ pc' \in {ProgramOrder[pc], "failed"} ]_vars

C9_Witness ==
    /\ pc = "failed"
    /\ ret.op = "calculate_climate_index"
    /\ ret.status = "ValueError"
    /\ ~HasColumn(data, "precipitation")
    /\ disk = <<"temperature_trend.png">>
    /\ figures = 1
===========================================================================
